---- MODULE Spec2Model ----
(***************************************************************************)
(* Model of the drone fly-distance program (app.go).                       *)
(*                                                                         *)
(* App.Start reads the field and the trees through UtilProvider.Scanln,    *)
(* validates them, builds treeMap and prints calculateFlyDistance.         *)
(* calculateFlyDistance walks the field with getNextPlotCoordinate and     *)
(* charges every change of altitude.                                       *)
(*                                                                         *)
(* Five specifications share the variables and the operators:              *)
(*   Spec        a run of App.Start, one action per Scanln / loop turn;    *)
(*   SpecFly     direct calls of calculateFlyDistance, as the unit tests   *)
(*               make them, on drawn fields and obstacle tables;           *)
(*   SpecFlyFair one call of calculateFlyDistance run to its end, with     *)
(*               weak fairness of its steps;                               *)
(*   SpecStepper one direct call of getNextPlotCoordinate on a drawn       *)
(*               (length, x, y);                                           *)
(*   SpecKey     generateTreeKey and the insert on two drawn coordinates.  *)
(***************************************************************************)
EXTENDS Integers, Sequences, FiniteSets, TLC

\* ------------------------------------------------------------------------
\* Bounds of the model
\* ------------------------------------------------------------------------

\* largest field area (length * width) that is drawn
MaxPlots == 8
\* largest tree count read by Start, and largest drawn obstacle table
MaxTrees == 2
\* range of the coordinates handed to a single stepper call: -1 .. MaxCoord
MaxCoord == 6
\* range of the coordinates handed to generateTreeKey: 1 .. MaxKeyCoord, and 50000
MaxKeyCoord == 12

\* ------------------------------------------------------------------------
\* Program constants
\* ------------------------------------------------------------------------

MinInitial == 1
MaxInitial == 50000
MinHeight == 1
MaxHeight == 30
TakeOff == 1
Landing == 1
UnitScale == 10
GroundAltitude == 1
ExitFail == 1

\* ------------------------------------------------------------------------
\* Go integer arithmetic: / truncates toward zero, % takes the dividend's sign
\* ------------------------------------------------------------------------

GoDiv(a, b) == IF a >= 0 THEN a \div b ELSE -((-a) \div b)

GoMod(a, b) == IF a >= 0 THEN a % b ELSE -((-a) % b)

\* ------------------------------------------------------------------------
\* Pure helpers of App
\* ------------------------------------------------------------------------

\* mutant: the sign is kept, a descent is charged as a negative distance
absIntSigned(input) == input

absInt(input) == IF input < 0 THEN -input ELSE input

DigitChar(d) ==
    CASE d = 0 -> "0" [] d = 1 -> "1" [] d = 2 -> "2" [] d = 3 -> "3"
      [] d = 4 -> "4" [] d = 5 -> "5" [] d = 6 -> "6" [] d = 7 -> "7"
      [] d = 8 -> "8" [] d = 9 -> "9"

RECURSIVE NatToDec(_)
NatToDec(n) ==
    IF n < 10 THEN DigitChar(n) ELSE NatToDec(n \div 10) \o DigitChar(n % 10)

\* fmt's %d verb: decimal digits, a leading minus sign for a negative number
FormatInt(n) == IF n < 0 THEN "-" \o NatToDec(-n) ELSE NatToDec(n)

\* mutant: the comma between the two numbers is missing
generateTreeKeyNoComma(x0, y0) == FormatInt(x0) \o FormatInt(y0)

generateTreeKey(x0, y0) == FormatInt(x0) \o "," \o FormatInt(y0)

\* mutant: only the upper limits are tested
validateInitialInputsUpperOnly(l, w, c) ==
    w <= MaxInitial /\ l <= MaxInitial /\ c <= MaxInitial

validateInitialInputs(l, w, c) ==
    /\ w >= MinInitial /\ w <= MaxInitial
    /\ l >= MinInitial /\ l <= MaxInitial
    /\ c >= MinInitial /\ c <= MaxInitial

\* mutant: only the upper limit is tested
heightOutOfRangeUpperOnly(height) == height > MaxHeight

\* the guard of Start's throwFail inside the tree loop
heightOutOfRange(height) == height < MinHeight \/ height > MaxHeight

calculateHorizontalDistance(l, w) ==
    IF w = 1
    THEN l - 1
    ELSE LET half == GoDiv(w, 2)
             northSteps == IF GoMod(w, 2) # 0 THEN half + 1 ELSE half
         IN  (l - 1) * w + northSteps

\* mutant: the east edge is tested before the west edge
getNextPlotCoordinateEastFirst(l, x0, y0) ==
    IF x0 = l
    THEN IF GoMod(y0, 2) = 0 THEN <<x0 - 1, y0>> ELSE <<x0, y0 + 1>>
    ELSE IF x0 = 1
         THEN IF GoMod(y0, 2) = 0 THEN <<x0, y0 + 1>> ELSE <<x0 + 1, y0>>
         ELSE IF GoMod(y0, 2) = 0 THEN <<x0 - 1, y0>> ELSE <<x0 + 1, y0>>

getNextPlotCoordinate(l, x0, y0) ==
    IF x0 = 1
    THEN IF GoMod(y0, 2) = 0 THEN <<x0, y0 + 1>> ELSE <<x0 + 1, y0>>
    ELSE IF x0 = l
         THEN IF GoMod(y0, 2) = 0 THEN <<x0 - 1, y0>> ELSE <<x0, y0 + 1>>
         ELSE IF GoMod(y0, 2) = 0 THEN <<x0 - 1, y0>> ELSE <<x0 + 1, y0>>

\* ------------------------------------------------------------------------
\* The obstacle table: a Go map[string]int
\* ------------------------------------------------------------------------

EmptyMap == [k \in {} |-> 0]

\* mutant: the insert starts from a fresh map, the earlier trees are lost
MapPutFresh(m, key, height) == [k \in {key} |-> height]

\* treeMap[key] = height
MapPut(m, key, height) ==
    [k \in (DOMAIN m) \cup {key} |-> IF k = key THEN height ELSE m[k]]

\* treeHeight, found := treeMap[key]
MapFound(m, key) == key \in DOMAIN m

MapGet(m, key) == IF key \in DOMAIN m THEN m[key] ELSE 0

\* ------------------------------------------------------------------------
\* calculateFlyDistance: its locals as a record, one loop turn as an operator
\* ------------------------------------------------------------------------

\* distance, x, y and currentAltitude on entry to the loop
flyEntry(l, w) ==
    [ x |-> 1, y |-> 1,
      currentAltitude |-> GroundAltitude,
      distance |-> TakeOff + calculateHorizontalDistance(l, w) * UnitScale + Landing ]

\* mutant: only the row is tested
flyLoopCondRowOnly(l, w, s) == s.y <= w

\* the loop condition
flyLoopCond(l, w, s) == s.x <= l /\ s.y <= w

\* mutant: on a plot without a tree the whole altitude is charged, not the
\* altitude above 1, and the test currentAltitude != 1 is missing
flyLoopBodyOffByOne(l, m, s) ==
    LET next == getNextPlotCoordinate(l, s.x, s.y)
        key  == generateTreeKey(next[1], next[2])
    IN  IF ~MapFound(m, key)
        THEN [ x |-> next[1], y |-> next[2],
               currentAltitude |-> GroundAltitude,
               distance |-> s.distance + absInt(s.currentAltitude) ]
        ELSE [ x |-> next[1], y |-> next[2],
               currentAltitude |-> MapGet(m, key) + 1,
               distance |-> s.distance + absInt(MapGet(m, key) + 1 - s.currentAltitude) ]

\* mutant: the drone flies at the height of the tree, not one above it
flyLoopBodyTreeHeight(l, m, s) ==
    LET next == getNextPlotCoordinate(l, s.x, s.y)
        key  == generateTreeKey(next[1], next[2])
    IN  IF ~MapFound(m, key)
        THEN IF s.currentAltitude # GroundAltitude
             THEN [ x |-> next[1], y |-> next[2],
                    currentAltitude |-> GroundAltitude,
                    distance |-> s.distance + absInt(s.currentAltitude - GroundAltitude) ]
             ELSE [ x |-> next[1], y |-> next[2],
                    currentAltitude |-> s.currentAltitude,
                    distance |-> s.distance ]
        ELSE [ x |-> next[1], y |-> next[2],
               currentAltitude |-> MapGet(m, key),
               distance |-> s.distance + absInt(MapGet(m, key) - s.currentAltitude) ]

\* mutant: on a plot without a tree the drone keeps its altitude
flyLoopBodyNoDescent(l, m, s) ==
    LET next == getNextPlotCoordinate(l, s.x, s.y)
        key  == generateTreeKey(next[1], next[2])
    IN  IF ~MapFound(m, key)
        THEN [ x |-> next[1], y |-> next[2],
               currentAltitude |-> s.currentAltitude,
               distance |-> s.distance ]
        ELSE [ x |-> next[1], y |-> next[2],
               currentAltitude |-> MapGet(m, key) + 1,
               distance |-> s.distance + absInt(MapGet(m, key) + 1 - s.currentAltitude) ]

\* one turn of the loop
flyLoopBody(l, m, s) ==
    LET next == getNextPlotCoordinate(l, s.x, s.y)
        key  == generateTreeKey(next[1], next[2])
    IN  IF ~MapFound(m, key)
        THEN IF s.currentAltitude # GroundAltitude
             THEN [ x |-> next[1], y |-> next[2],
                    currentAltitude |-> GroundAltitude,
                    distance |-> s.distance + absInt(s.currentAltitude - GroundAltitude) ]
             ELSE [ x |-> next[1], y |-> next[2],
                    currentAltitude |-> s.currentAltitude,
                    distance |-> s.distance ]
        ELSE [ x |-> next[1], y |-> next[2],
               currentAltitude |-> MapGet(m, key) + 1,
               distance |-> s.distance + absInt(MapGet(m, key) + 1 - s.currentAltitude) ]

RECURSIVE flyLoop(_, _, _, _)
flyLoop(l, w, m, s) ==
    IF flyLoopCond(l, w, s) THEN flyLoop(l, w, m, flyLoopBody(l, m, s)) ELSE s

\* the value calculateFlyDistance returns
calculateFlyDistance(l, w, m) == flyLoop(l, w, m, flyEntry(l, w)).distance

\* ------------------------------------------------------------------------
\* State
\* ------------------------------------------------------------------------

VARIABLES
    pc,               \* where the program stands
    length, width,    \* the field
    count, i,         \* Start's tree count and loop index
    treeMap,          \* the obstacle table
    x, y,             \* calculateFlyDistance: current coordinate
    currentAltitude,  \* calculateFlyDistance: current altitude
    distance,         \* calculateFlyDistance: accumulated distance
    stdout, stderr,   \* what was printed
    exitCode,         \* argument of osExit, -1 while it was not called
    initial,          \* history: the initial triples Scanln delivered
    reads,            \* history: the tree triples Scanln delivered
    path,             \* history: the coordinates the stepper returned in this call
    results           \* history: the last two values calculateFlyDistance returned

vars == << pc, length, width, count, i, treeMap, x, y, currentAltitude,
           distance, stdout, stderr, exitCode, initial, reads, path, results >>

startVars == << count, i, stdout, stderr, exitCode, initial, reads >>

locals == [ x |-> x, y |-> y, currentAltitude |-> currentAltitude,
            distance |-> distance ]

\* ------------------------------------------------------------------------
\* Inputs
\* ------------------------------------------------------------------------

\* fields drawn: every length x width of at most MaxPlots plots
Fields == { f \in (1..MaxPlots) \X (1..MaxPlots) : f[1] * f[2] <= MaxPlots }

\* values Scanln may deliver for length and width
DimInputs == { MinInitial - 1, MaxInitial + 1 } \cup (1..MaxPlots)

\* values Scanln may deliver for count
CountInputs == { MinInitial - 1, MaxInitial + 1 } \cup (1..MaxTrees)

InitialInputs ==
    { t \in DimInputs \X DimInputs \X CountInputs :
        (t[1] \in 1..MaxPlots /\ t[2] \in 1..MaxPlots) => <<t[1], t[2]>> \in Fields }

\* values Scanln may deliver for a tree height
HeightInputs == { MinHeight - 1, MinHeight, MaxHeight, MaxHeight + 1 }

\* coordinates Scanln may deliver for a tree: the first and the last column and
\* row of the field, and the column and the row just beyond it
CoordInputs(l, w) == { 1, l, l + 1 } \X { 1, w, w + 1 }

TreeInputs(l, w) ==
    { <<c[1], c[2], h>> : c \in CoordInputs(l, w), h \in HeightInputs }

\* coordinates of the trees of a drawn table: the field and one plot beyond
TableCoordInputs(l, w) == (1..(l + 1)) \X (1..(w + 1))

\* heights of the trees of a drawn table
TableHeightInputs == { MinHeight, MaxHeight }

\* the table Start builds from the triples ts, inserted first to last
RECURSIVE TableOf(_)
TableOf(ts) ==
    IF ts = <<>>
    THEN EmptyMap
    ELSE LET n == Len(ts)
         IN  MapPut(TableOf(SubSeq(ts, 1, n - 1)),
                    generateTreeKey(ts[n][1], ts[n][2]), ts[n][3])

\* obstacle tables drawn for a direct call: at most MaxTrees trees
TableInputs(l, w) ==
    { TableOf(ts) :
        ts \in UNION { [1..k -> { <<c[1], c[2], h>> : c \in TableCoordInputs(l, w),
                                                         h \in TableHeightInputs }] :
                       k \in 0..MaxTrees } }

\* ------------------------------------------------------------------------
\* App.Start
\* ------------------------------------------------------------------------

Init ==
    /\ pc = "scanInitial"
    /\ length = 0 /\ width = 0 /\ count = 0 /\ i = 0
    /\ treeMap = EmptyMap
    /\ x = 0 /\ y = 0 /\ currentAltitude = 0 /\ distance = 0
    /\ stdout = <<>> /\ stderr = <<>> /\ exitCode = -1
    /\ initial = <<>> /\ reads = <<>> /\ path = <<>> /\ results = <<>>

\* throwFail: "FAIL" on stderr, then osExit(1); Start returns right after
throwFail ==
    /\ stderr' = Append(stderr, "FAIL")
    /\ exitCode' = ExitFail
    /\ pc' = "exited"

\* Scanln(&length, &width, &count) and validateInitialInputs
ScanInitial ==
    /\ pc = "scanInitial"
    /\ \E t \in InitialInputs :
        /\ length' = t[1] /\ width' = t[2] /\ count' = t[3]
        /\ initial' = Append(initial, t)
        /\ IF ~validateInitialInputs(t[1], t[2], t[3])
           THEN /\ throwFail
                /\ UNCHANGED << i >>
           ELSE /\ i' = 0
                /\ pc' = IF 0 < t[3] THEN "scanTree" ELSE "call"
                /\ UNCHANGED << stderr, exitCode >>
    /\ UNCHANGED << treeMap, x, y, currentAltitude, distance, stdout, reads,
                    path, results >>

\* one turn of the tree loop: Scanln(&x, &y, &height), the height check, the insert
ScanTree ==
    /\ pc = "scanTree"
    /\ i < count
    /\ \E t \in TreeInputs(length, width) :
        /\ reads' = Append(reads, t)
        /\ IF heightOutOfRange(t[3])
           THEN /\ throwFail
                /\ UNCHANGED << treeMap, i >>
           ELSE /\ treeMap' = MapPut(treeMap, generateTreeKey(t[1], t[2]), t[3])
                /\ i' = i + 1
                /\ pc' = IF i + 1 < count THEN "scanTree" ELSE "call"
                /\ UNCHANGED << stderr, exitCode >>
    /\ UNCHANGED << length, width, count, x, y, currentAltitude, distance,
                    stdout, initial, path, results >>

\* fmt.Println(distance)
Println ==
    /\ pc = "returned"
    /\ stdout' = Append(stdout, results[Len(results)])
    /\ pc' = "done"
    /\ UNCHANGED << length, width, count, i, treeMap, x, y, currentAltitude,
                    distance, stderr, exitCode, initial, reads, path, results >>

\* ------------------------------------------------------------------------
\* calculateFlyDistance
\* ------------------------------------------------------------------------

\* mutant: currentAltitude is process-wide state, set once and kept between calls
CallKeepingAltitude ==
    /\ pc = "call"
    /\ LET s == flyEntry(length, width)
       IN  /\ x' = s.x /\ y' = s.y
           /\ currentAltitude' = IF results = <<>> THEN s.currentAltitude
                                                   ELSE currentAltitude
           /\ distance' = s.distance
    /\ path' = <<>>
    /\ pc' = "loop"
    /\ UNCHANGED << length, width, treeMap, results >>
    /\ UNCHANGED startVars

\* entry: distance, x, y, currentAltitude are initialised
Call ==
    /\ pc = "call"
    /\ LET s == flyEntry(length, width)
       IN  /\ x' = s.x /\ y' = s.y
           /\ currentAltitude' = s.currentAltitude
           /\ distance' = s.distance
    /\ path' = <<>>
    /\ pc' = "loop"
    /\ UNCHANGED << length, width, treeMap, results >>
    /\ UNCHANGED startVars

\* one turn of the for loop
Loop ==
    /\ pc = "loop"
    /\ flyLoopCond(length, width, locals)
    /\ LET s == flyLoopBody(length, treeMap, locals)
       IN  /\ x' = s.x /\ y' = s.y
           /\ currentAltitude' = s.currentAltitude
           /\ distance' = s.distance
           /\ path' = Append(path, <<s.x, s.y>>)
    /\ UNCHANGED << pc, length, width, treeMap, results >>
    /\ UNCHANGED startVars

\* the loop condition fails: return distance
Return ==
    /\ pc = "loop"
    /\ ~flyLoopCond(length, width, locals)
    /\ results' = IF results = <<>>
                  THEN << distance >>
                  ELSE << results[Len(results)], distance >>
    /\ pc' = "returned"
    /\ UNCHANGED << length, width, treeMap, x, y, currentAltitude, distance, path >>
    /\ UNCHANGED startVars

Next == ScanInitial \/ ScanTree \/ Call \/ Loop \/ Return \/ Println

Spec == Init /\ [][Next]_vars

\* ------------------------------------------------------------------------
\* Direct calls of calculateFlyDistance (TestApp_calculateFlyDistance)
\* ------------------------------------------------------------------------

InitFly ==
    /\ pc = "call"
    /\ \E f \in Fields :
        /\ length = f[1] /\ width = f[2]
        /\ treeMap \in TableInputs(f[1], f[2])
    /\ count = 0 /\ i = 0
    /\ x = 0 /\ y = 0 /\ currentAltitude = 0 /\ distance = 0
    /\ stdout = <<>> /\ stderr = <<>> /\ exitCode = -1
    /\ initial = <<>> /\ reads = <<>> /\ path = <<>> /\ results = <<>>

\* the caller calls again with the same arguments
CallAgain ==
    /\ pc = "returned"
    /\ pc' = "call"
    /\ UNCHANGED << length, width, treeMap, x, y, currentAltitude, distance,
                    path, results >>
    /\ UNCHANGED startVars

NextFly == Call \/ Loop \/ Return \/ CallAgain

SpecFly == InitFly /\ [][NextFly]_vars

\* ------------------------------------------------------------------------
\* One direct call of getNextPlotCoordinate (TestApp_getNextPlotCoordinate)
\* ------------------------------------------------------------------------

InitStepper ==
    /\ pc = "step"
    /\ length \in 1..MaxCoord
    /\ x \in -1..MaxCoord
    /\ y \in -1..MaxCoord
    /\ width = 0 /\ count = 0 /\ i = 0
    /\ treeMap = EmptyMap
    /\ currentAltitude = 0 /\ distance = 0
    /\ stdout = <<>> /\ stderr = <<>> /\ exitCode = -1
    /\ initial = <<>> /\ reads = <<>> /\ path = <<>> /\ results = <<>>

\* x1, y1 := getNextPlotCoordinate(length, x, y); the result is kept in path
StepOnce ==
    /\ pc = "step"
    /\ path' = << getNextPlotCoordinate(length, x, y) >>
    /\ pc' = "stepped"
    /\ UNCHANGED << length, width, treeMap, x, y, currentAltitude, distance,
                    results >>
    /\ UNCHANGED startVars

NextStepper == StepOnce

SpecStepper == InitStepper /\ [][NextStepper]_vars

\* ------------------------------------------------------------------------
\* Vocabulary of the properties
\* ------------------------------------------------------------------------

\* the plots of the field
Plots == (1..length) \X (1..width)

InField(c) == c \in Plots

\* the coordinates the drone has stood on in this call: (1,1), then the stepper's
Visited == << <<1, 1>> >> \o path

VisitedSet == { Visited[k] : k \in 1..Len(Visited) }

Min(a, b) == IF a <= b THEN a ELSE b

AbsDiff(a, b) == IF a >= b THEN a - b ELSE b - a

\* the value the last call of calculateFlyDistance returned
LastResult == results[Len(results)]

\* the altitude a plot asks for: one above its tree, 1 without a tree
Required(c) ==
    LET key == generateTreeKey(c[1], c[2])
    IN  IF key \in DOMAIN treeMap THEN treeMap[key] + 1 ELSE 1

\* the altitude changes along p[k..], coming in at altitude alt
RECURSIVE AltitudeCost(_, _, _)
AltitudeCost(p, k, alt) ==
    IF k > Len(p)
    THEN 0
    ELSE AbsDiff(Required(p[k]), alt) + AltitudeCost(p, k + 1, Required(p[k]))

\* every tree of the table stands in the field and is 1 to 30 high
TableInField ==
    /\ DOMAIN treeMap \subseteq { generateTreeKey(c[1], c[2]) : c \in Plots }
    /\ \A key \in DOMAIN treeMap : treeMap[key] \in 1..30

\* ------------------------------------------------------------------------
\* C1 (SpecFly) - from (1,1) the first length*width - 1 steps of the stepper
\* stay in the field and, with (1,1), visit every plot exactly once.
\* Stated as claimed; the stepper leaves a field of length 1 at its first step.
\* ------------------------------------------------------------------------
StepperVisitsEveryPlotOnce ==
    pc \in {"loop", "returned"} =>
        LET n == Min(Len(Visited), length * width)
        IN  /\ \A k \in 1..n : InField(Visited[k])
            /\ \A j, k \in 1..n : j # k => Visited[j] # Visited[k]
            /\ pc = "returned" => { Visited[k] : k \in 1..n } = Plots

\* ------------------------------------------------------------------------
\* C2 (SpecFly) - calculateHorizontalDistance(length, width) is the number of
\* unit moves the stepper makes from (1,1) until the last plot is reached.
\* Stated as claimed, for the sweeps that do reach every plot.
\* ------------------------------------------------------------------------
SweepMoves == Cardinality({ k \in 1..Len(path) : InField(path[k]) })

HorizontalDistanceIsSweepLength ==
    (pc = "returned" /\ Plots \subseteq VisitedSet) =>
        calculateHorizontalDistance(length, width) = SweepMoves

\* ------------------------------------------------------------------------
\* C3 (SpecFly) - with an empty obstacle table calculateFlyDistance returns
\* 2 + 10 * calculateHorizontalDistance(length, width).
\* ------------------------------------------------------------------------
NoObstacleDistance ==
    (pc = "returned" /\ treeMap = EmptyMap) =>
        LastResult = 2 + 10 * calculateHorizontalDistance(length, width)

NoObstacleWitness ==
    /\ pc = "returned" /\ treeMap = EmptyMap
    /\ length >= 2 /\ width >= 2
    /\ LastResult > 2

\* ------------------------------------------------------------------------
\* C4 (SpecFly) - for a table of trees in the field, 1 to 30 high,
\* calculateFlyDistance returns 2 + 10 * calculateHorizontalDistance plus the
\* altitude changes |required - previous| along the stepper's coordinates
\* after (1,1), up to and including the first coordinate outside the field
\* (which holds no tree, so the drone comes down to 1 there).
\* ------------------------------------------------------------------------
FlyDistanceIsPathCost ==
    (pc = "returned" /\ TableInField) =>
        LastResult = 2 + 10 * calculateHorizontalDistance(length, width)
                       + AltitudeCost(path, 1, 1)

\* a tree on the plot visited last: its descent is charged one step later
FlyDistanceWitness ==
    /\ pc = "returned" /\ TableInField
    /\ Cardinality(DOMAIN treeMap) = 2
    /\ Len(path) >= 3
    /\ InField(path[Len(path) - 1])
    /\ MapFound(treeMap, generateTreeKey(path[Len(path) - 1][1], path[Len(path) - 1][2]))
    /\ Required(path[1]) = 1
    /\ \A key \in DOMAIN treeMap :
          \E k \in 1..Len(path) : key = generateTreeKey(path[k][1], path[k][2])

\* C4 as claimed: the sum runs over the plots of the field only
FlyDistanceIsInFieldCost ==
    (pc = "returned" /\ TableInField) =>
        LastResult = 2 + 10 * calculateHorizontalDistance(length, width)
                       + AltitudeCost(SelectSeq(path, InField), 1, 1)

\* ------------------------------------------------------------------------
\* Vocabulary of the properties of Start
\* ------------------------------------------------------------------------

InitialInRange(t) == t[1] \in 1..50000 /\ t[2] \in 1..50000 /\ t[3] \in 1..50000

HeightInRange(t) == t[3] \in 1..30

\* an out-of-range value has been read
BadInputRead ==
    \/ initial # <<>> /\ ~InitialInRange(initial[1])
    \/ \E k \in 1..Len(reads) : ~HeightInRange(reads[k])

\* the failure signal: FAIL on stderr and exit status 1
Failed == stderr = << "FAIL" >> /\ exitCode = 1 /\ pc = "exited"

\* calculateFlyDistance has been entered
Flying == pc \in {"loop", "returned", "done"}

\* the permutations of 1..n
Perms(n) == { p \in [1..n -> 1..n] : \A a, b \in 1..n : a # b => p[a] # p[b] }

Permuted(ts, p) == [k \in 1..Len(ts) |-> ts[p[k]]]

SameCoordinate(s, t) == s[1] = t[1] /\ s[2] = t[2]

\* no two triples give one coordinate two heights
NoConflictingTrees(ts) ==
    \A j, k \in 1..Len(ts) : SameCoordinate(ts[j], ts[k]) => ts[j][3] = ts[k][3]

\* ------------------------------------------------------------------------
\* C5 (Spec) - the distance Start prints is the distance of every permutation
\* of the triples it read, provided no two triples name the same coordinate
\* with different heights.
\* ------------------------------------------------------------------------
OrderIrrelevantWithoutConflicts ==
    (pc = "done" /\ NoConflictingTrees(reads)) =>
        \A p \in Perms(Len(reads)) :
            calculateFlyDistance(length, width, TableOf(Permuted(reads, p))) = stdout[1]

\* two different trees, both looked up by the traversal
OrderIrrelevantWitness ==
    /\ pc = "done"
    /\ Len(reads) = 2
    /\ ~SameCoordinate(reads[1], reads[2])
    /\ reads[1][3] # reads[2][3]
    /\ \A k \in 1..2 : \E j \in 1..Len(path) : path[j] = <<reads[k][1], reads[k][2]>>

\* C5 as claimed: for every list of valid triples (trees of the field, 1 to 30
\* high), whether or not two of them name the same plot
OrderIrrelevant ==
    (pc = "done" /\ \A k \in 1..Len(reads) : InField(<<reads[k][1], reads[k][2]>>)) =>
        \A p \in Perms(Len(reads)) :
            calculateFlyDistance(length, width, TableOf(Permuted(reads, p))) = stdout[1]

\* ------------------------------------------------------------------------
\* C6 (Spec) - once a length, width or count outside [1,50000] or a height
\* outside [1,30] has been read, Start has signalled failure and printed no
\* distance; no run both prints a distance and signals failure.
\* ------------------------------------------------------------------------
FailureSignal ==
    /\ BadInputRead => (Failed /\ stdout = <<>>)
    /\ ~(stdout # <<>> /\ (stderr # <<>> \/ exitCode # -1 \/ pc = "exited"))

\* the second tree read is too high or too low
FailureSignalWitness ==
    /\ Failed
    /\ Len(reads) = 2
    /\ HeightInRange(reads[1]) /\ ~HeightInRange(reads[2])

\* ------------------------------------------------------------------------
\* C7 (Spec) - after an invalid initial triple no tree triple is read; a tree
\* triple with a height out of range is the last one read; the traversal is
\* entered only when all count tree triples were read and found valid, and
\* before that no step of it has been taken.
\* ------------------------------------------------------------------------
ReadsShortCircuit ==
    /\ Len(initial) <= 1
    /\ (initial # <<>> /\ ~InitialInRange(initial[1])) => reads = <<>>
    /\ \A k \in 1..Len(reads) : ~HeightInRange(reads[k]) => k = Len(reads)
    /\ (pc = "call" \/ Flying) =>
          /\ Len(initial) = 1 /\ InitialInRange(initial[1])
          /\ Len(reads) = count
          /\ \A k \in 1..Len(reads) : HeightInRange(reads[k])
    /\ ~Flying => (path = <<>> /\ results = <<>> /\ stdout = <<>>)

\* the first of two trees is out of range: the second is never read
ReadsShortCircuitWitness ==
    /\ pc = "exited"
    /\ count = 2
    /\ Len(reads) = 1

\* ------------------------------------------------------------------------
\* C8 (Spec) - a tree triple whose coordinate lies outside the field makes
\* Start signal failure and print nothing, so the table of the traversal holds
\* coordinates of the field only.  Stated as claimed; Start checks the height
\* only.
\* ------------------------------------------------------------------------
OutOfFieldTreeFails ==
    /\ (\E k \in 1..Len(reads) : ~InField(<<reads[k][1], reads[k][2]>>)) =>
          (Failed /\ stdout = <<>>)
    /\ (pc = "call" \/ Flying) =>
          DOMAIN treeMap \subseteq { generateTreeKey(c[1], c[2]) : c \in Plots }

\* ------------------------------------------------------------------------
\* C9 (SpecStepper) - getNextPlotCoordinate(length, x, y): at x = 1 north when
\* y is even, east when odd; else at x = length west when y is even, north
\* when odd; else west when y is even, east when odd.  One coordinate changes,
\* by exactly 1, and y never decreases.
\* ------------------------------------------------------------------------
IsEven(n) == \E k \in -(MaxCoord + 1)..(MaxCoord + 1) : n = 2 * k

StepperRule ==
    pc = "stepped" =>
        LET r == path[1]
        IN  /\ r = IF x = 1
                   THEN (IF IsEven(y) THEN <<x, y + 1>> ELSE <<x + 1, y>>)
                   ELSE IF x = length
                        THEN (IF IsEven(y) THEN <<x - 1, y>> ELSE <<x, y + 1>>)
                        ELSE (IF IsEven(y) THEN <<x - 1, y>> ELSE <<x + 1, y>>)
            /\ AbsDiff(r[1], x) + AbsDiff(r[2], y) = 1
            /\ r[2] >= y

\* the east edge of a field longer than 1, on an odd row: the step north
StepperRuleWitness ==
    /\ pc = "stepped"
    /\ x = length /\ length > 1 /\ ~IsEven(y)
    /\ path[1] = <<x, y + 1>>

\* ------------------------------------------------------------------------
\* C10 (SpecFly) - no step of calculateFlyDistance changes the obstacle table
\* or the field, and a call returns what the call before it, with the same
\* arguments, returned.
\* ------------------------------------------------------------------------
FlyIsPure ==
    [][ /\ treeMap' = treeMap /\ length' = length /\ width' = width
        /\ Len(results') = 2 => results'[1] = results'[2] ]_vars

\* the second call has returned, and the flight went over a tree
FlyIsPureWitness ==
    /\ pc = "returned"
    /\ Len(results) = 2
    /\ results[2] > 2 + 10 * calculateHorizontalDistance(length, width)

\* ------------------------------------------------------------------------
\* Vocabulary of the properties of the traversal
\* ------------------------------------------------------------------------

\* the keys looked up in treeMap in this call: each loop turn looks up once,
\* the key of the coordinate the stepper has just returned
Lookups == [k \in 1..Len(path) |-> generateTreeKey(path[k][1], path[k][2])]

\* how often the plot c has been looked up in this call
LookupCount(c) ==
    Cardinality({ k \in 1..Len(Lookups) : Lookups[k] = generateTreeKey(c[1], c[2]) })

\* ------------------------------------------------------------------------
\* C11 (SpecFly) - when calculateFlyDistance returns, treeMap has been looked
\* up at every plot of the field exactly once.  Stated as claimed; the loop
\* steps before it looks up, so plot (1,1) is never looked up.
\* ------------------------------------------------------------------------
LooksUpEveryPlotOnce ==
    pc = "returned" => \A c \in Plots : LookupCount(c) = 1

\* ------------------------------------------------------------------------
\* One call of calculateFlyDistance, run to its end: a sequential program
\* takes its next step whenever it has one (weak fairness of the steps).
\* The tables are those Start can hand over for the field.
\* ------------------------------------------------------------------------

StartTableInputs(l, w) ==
    { TableOf(ts) :
        ts \in UNION { [1..k -> { t \in TreeInputs(l, w) : ~heightOutOfRange(t[3]) }] :
                       k \in 0..MaxTrees } }

InitFlyOnce ==
    /\ pc = "call"
    /\ \E f \in Fields :
        /\ length = f[1] /\ width = f[2]
        /\ treeMap \in StartTableInputs(f[1], f[2])
    /\ count = 0 /\ i = 0
    /\ x = 0 /\ y = 0 /\ currentAltitude = 0 /\ distance = 0
    /\ stdout = <<>> /\ stderr = <<>> /\ exitCode = -1
    /\ initial = <<>> /\ reads = <<>> /\ path = <<>> /\ results = <<>>

NextFlyOnce == Call \/ Loop \/ Return

SpecFlyFair == InitFlyOnce /\ [][NextFlyOnce]_vars /\ WF_vars(NextFlyOnce)

\* ------------------------------------------------------------------------
\* C12 (SpecFlyFair) - every call of calculateFlyDistance returns, and no
\* step of it raises the failure signal; every coordinate the stepper returns
\* but the last lies in the field, and the call returns its distance at the
\* first coordinate with x > length or y > width.
\* ------------------------------------------------------------------------
FlyTerminates ==
    /\ [](pc \in {"loop", "returned"} =>
            /\ stderr = <<>> /\ exitCode = -1
            /\ \A k \in 1..(Len(path) - 1) :
                  path[k][1] <= length /\ path[k][2] <= width
            /\ pc = "returned" =>
                  /\ path # <<>>
                  /\ path[Len(path)][1] > length \/ path[Len(path)][2] > width
                  /\ LastResult = distance)
    /\ (pc = "call") ~> (pc = "returned")

\* a call has returned after a sweep of several rows
FlyTerminatesWitness ==
    /\ pc = "returned"
    /\ width >= 3 /\ length >= 2
    /\ path[Len(path)][2] > width
    /\ treeMap # EmptyMap

\* ------------------------------------------------------------------------
\* C13 (SpecFly) - every loop turn, which begins with the call of
\* getNextPlotCoordinate(length, x, y), starts from a coordinate of the field:
\* 1 <= x <= length and 1 <= y <= width.
\* ------------------------------------------------------------------------
StepperCalledInField ==
    [][ Len(path') = Len(path) + 1 =>
          (1 <= x /\ x <= length /\ 1 <= y /\ y <= width) ]_vars

\* the stepper has been called on the west edge of an even row, after a sweep
\* back from the east edge
StepperCalledWitness ==
    /\ pc = "loop"
    /\ Len(path) >= 2
    /\ path[Len(path) - 1] = <<1, 2>>
    /\ path[Len(path)] = <<1, 3>>
    /\ length >= 2

Climb(a, b) == IF b > a THEN b - a ELSE 0

\* the climbs along p[k..], coming in at altitude alt
RECURSIVE TotalClimb(_, _, _)
TotalClimb(p, k, alt) ==
    IF k > Len(p)
    THEN 0
    ELSE Climb(alt, Required(p[k])) + TotalClimb(p, k + 1, Required(p[k]))

BackOnGround ==
    (/\ pc = "returned"
     /\ DOMAIN treeMap \subseteq { generateTreeKey(c[1], c[2]) : c \in Plots }) =>
        /\ currentAltitude = 1
        /\ LastResult - (2 + 10 * calculateHorizontalDistance(length, width))
             = 2 * TotalClimb(path, 1, 1)

\* two climbs: over a tree of 30, down, and over another tree
BackOnGroundWitness ==
    /\ pc = "returned"
    /\ DOMAIN treeMap \subseteq { generateTreeKey(c[1], c[2]) : c \in Plots }
    /\ TotalClimb(path, 1, 1) > 30
    /\ MapFound(treeMap, generateTreeKey(path[Len(path) - 1][1], path[Len(path) - 1][2]))

\* ------------------------------------------------------------------------
\* Two trees keyed and inserted as Start does it (app.go:53-54), on two drawn
\* coordinates: path holds the coordinates, results the keys generated
\* ------------------------------------------------------------------------

KeyInputs == (1..MaxKeyCoord) \cup { MaxInitial }

InitKey ==
    /\ pc = "key"
    /\ path \in { <<c, d>> : c \in KeyInputs \X KeyInputs, d \in KeyInputs \X KeyInputs }
    /\ length = 0 /\ width = 0 /\ count = 0 /\ i = 0
    /\ treeMap = EmptyMap
    /\ x = 0 /\ y = 0 /\ currentAltitude = 0 /\ distance = 0
    /\ stdout = <<>> /\ stderr = <<>> /\ exitCode = -1
    /\ initial = <<>> /\ reads = <<>> /\ results = <<>>

\* treeKey := generateTreeKey(x, y); treeMap[treeKey] = height, for a tree of
\* height 1 on the first coordinate and then a tree of height 30 on the second
KeyAndInsert ==
    /\ pc = "key"
    /\ LET key1 == generateTreeKey(path[1][1], path[1][2])
           key2 == generateTreeKey(path[2][1], path[2][2])
       IN  /\ results' = << key1, key2 >>
           /\ treeMap' = MapPut(MapPut(treeMap, key1, MinHeight), key2, MaxHeight)
    /\ pc' = "keyed"
    /\ UNCHANGED << length, width, x, y, currentAltitude, distance, path >>
    /\ UNCHANGED startVars

NextKey == KeyAndInsert

SpecKey == InitKey /\ [][NextKey]_vars

\* ------------------------------------------------------------------------
\* C16 (SpecKey) - generateTreeKey gives two different coordinates of
\* [1,50000] x [1,50000] two different keys, so the second tree does not
\* overwrite the first and each key still finds the height of its own plot.
\* ------------------------------------------------------------------------
KeysInjective ==
    (pc = "keyed" /\ path[1] # path[2]) =>
        /\ results[1] # results[2]
        /\ Cardinality(DOMAIN treeMap) = 2
        /\ treeMap[results[1]] = 1
        /\ treeMap[results[2]] = 30

\* (1,11) and (11,1): the same digits, split differently
KeysInjectiveWitness ==
    /\ pc = "keyed"
    /\ path = << <<1, 11>>, <<11, 1>> >>
    /\ results = << "1,11", "11,1" >>

====
